---- MODULE Spec2Model ----
(***************************************************************************)
(* State-machine model of the SEG-Y containers of this repository:         *)
(*   SEGYDataDivider  (src/data_divide.py)                                 *)
(*   SEGYDataLoader   (src/data_loading.py)                                *)
(*   SEGYHeaderLoader (src/header_loading.py)                              *)
(*                                                                         *)
(* One container object is constructed over one SEG-Y file.  The file is   *)
(* described by the number of traces it holds, the Samples and Interval    *)
(* fields of its binary header and its sample values.  Every method call   *)
(* is one action; the action records the call and what it returned or      *)
(* raised.                                                                 *)
(*                                                                         *)
(* Units.  The binary header stores the sample interval in microseconds    *)
(* and __enter__ keeps Interval / 1000 (milliseconds, a float).  The model *)
(* keeps every time in microseconds, so that a / b of two millisecond      *)
(* values is the exact quotient of the two microsecond integers.  The      *)
(* intervals drawn are exact binary fractions of a millisecond, for which  *)
(* the float quotient of the code is the exact quotient.                   *)
(***************************************************************************)
EXTENDS Integers, Sequences, FiniteSets, TLC

\* ------------------------------------------------------------------ bounds
MaxTraces == 4
MaxSamples == 3

\* Interval values (microseconds) of the binary header of the files drawn.
\* 0 is a header that leaves the field unset; segyio opens such a file.
FileIntervals == {0, 1000, 2000}

\* The defaults of divide_segy_file: 100 traces per chunk, 500.0 ms.
default_num_traces_per_chunk == 100
default_depth_interval_ms == 500 * 1000

\* The data sample format create_mini_segy writes: 5, IEEE float.
sample_format == 5

\* The file create_mini_segy writes by default: 50 traces of 250 samples,
\* 2000 microseconds apart.
n_traces == 50
n_samples == 250
sample_interval_us == 2000

\* depth_interval_ms arguments drawn, in microseconds (-1.0, 0, 0.5, ... ms).
DepthIntervals == {-1000, 0, 500, 1000, 2000, 2500, 4000}

TraceCounts == 0..MaxTraces
SampleCounts == 1..MaxSamples
ChunkSizes == -1..(MaxTraces + 1)
TraceIndices == (0 - MaxTraces - 1)..(MaxTraces + 1)
TraceBounds == -1..(MaxTraces + 1)
SampleBounds == -1..(MaxSamples + 1)

\* ------------------------------------------------------------------- state
VARIABLES
    chunks,              \* the caller's variable chunks: the arguments and
                         \* the grid of the divide_by_grid call it kept
    output_dir,          \* the artifacts save_all_chunks wrote to output_dir
    kind,                \* the class constructed: "divider", "loader", "header"
    with_stmt,           \* the caller's with statement over the container:
                         \* "new" before it, "body" inside it, "normal" after
                         \* the body ended, "raised" after the body raised,
                         \* "enter_failed" after __enter__ raised
    file,                \* self.file: "None" before __enter__, then the
                         \* segyio handle, "open" or "closed"
    file_traces,         \* len(self.file.trace) of the file on disk
    bin_Samples,         \* BinField.Samples of the file on disk
    bin_Interval,        \* BinField.Interval of the file on disk (microseconds)
    bin_Format,          \* BinField.Format of the file on disk
    header_info,         \* self.header_info of the header loader: <<>> for
                         \* the empty dict, <<info>> once get_file_info set it
    _total_traces,       \* self._total_traces (None before __enter__)
    _samples_per_trace,  \* self._samples_per_trace
    _sample_interval,    \* self._sample_interval, in microseconds
    call,                \* the method call in progress: [op, args], or NoCall
    result               \* what the call returned or raised: [status, value]

vars == <<chunks, output_dir, kind, with_stmt, file, file_traces, bin_Samples,
         bin_Interval, bin_Format, header_info, _total_traces,
          _samples_per_trace, _sample_interval, call, result>>

\* Python's None for the three cached fields.
None == -1

Kinds == {"divider", "loader", "header"}

\* No method call is in progress: the caller holds control.
NoCall == [op |-> "none", args |-> <<>>]

\* ----------------------------------------------------------------- results
Ok(v) == [status |-> "ok", value |-> v]
Raise(exc, what) == [status |-> exc, value |-> what]

Min(a, b) == IF a < b THEN a ELSE b

\* ------------------------------------------------------- the file's content
\* Sample s of trace t of the file (0-based), as self.file.trace[t][s] yields
\* it: a float32 value.  Every cell holds a different, non-zero value.
SampleValue(t, s) == (t + 1) * 16 + s + 1

\* self.file.trace[t] for an index segyio accepts: the whole sample array.
TraceData(t) == [j \in 1..bin_Samples |-> SampleValue(t, j - 1)]

\* segyio's index wrapping of trace[i] and header[i]: a negative index counts
\* from the end; -1 when the index is out of range (IndexError).
wrapindex(i) ==
    LET w == IF i < 0 THEN i + file_traces ELSE i
    IN  IF 0 <= w /\ w < file_traces THEN w ELSE -1

\* The caller has not kept a grid.
NoChunks == [args |-> <<>>, grid |-> <<>>]

\* What segyio raises when a trace or a header is read through a handle that
\* was closed.
ClosedFile == Raise("OSError", "I/O operation on closed file")

\* ------------------------------------------------------------ construction
Init ==
    /\ kind \in Kinds
    /\ chunks = NoChunks
    /\ output_dir = {}
    /\ with_stmt = "new"
    /\ file = "None"
    /\ file_traces \in TraceCounts
    /\ bin_Samples \in SampleCounts
    /\ bin_Interval \in FileIntervals
    /\ bin_Format = sample_format
    /\ header_info = <<>>
    /\ _total_traces = None
    /\ _samples_per_trace = None
    /\ _sample_interval = None
    /\ call = NoCall
    /\ result = Ok(<<>>)

\* A method can be called: no call is in progress, and the container is
\* bound to a name (with X(path) as v binds v only when __enter__ returns).
CanCall == call = NoCall /\ with_stmt # "enter_failed"

\* __enter__ of the three classes: opens the file; the divider and the loader
\* cache the trace count, the sample count and the interval.
Enter ==
    /\ call = NoCall
    /\ with_stmt = "new"
    /\ file = "None"
    /\ file' = "open"
    /\ with_stmt' = "body"
    /\ IF kind = "header"
         THEN UNCHANGED <<_total_traces, _samples_per_trace, _sample_interval>>
         ELSE /\ _total_traces' = file_traces
              /\ _samples_per_trace' = bin_Samples
              /\ _sample_interval' = bin_Interval
    /\ UNCHANGED <<chunks, output_dir,
                   kind, file_traces, bin_Samples, bin_Interval,
                   bin_Format, header_info, call, result>>

\* __enter__ of the divider and of the loader when a read of the binary
\* header raises (an I/O error) after segyio.open returned: self.file holds
\* the open handle, the fields read so far are set, the exception leaves
\* the with statement and __exit__ is not called.
EnterFails ==
    /\ call = NoCall
    /\ with_stmt = "new"
    /\ file = "None"
    /\ kind # "header"
    /\ file' = "open"
    /\ with_stmt' = "enter_failed"
    /\ _total_traces' = file_traces
    /\ \E field \in {"Samples", "Interval"} :
         /\ _samples_per_trace' = IF field = "Samples" THEN None ELSE bin_Samples
         /\ call' = [op |-> "__enter__", args |-> <<field>>]
    /\ _sample_interval' = None
    /\ result' = Raise("OSError", "read failed")
    /\ UNCHANGED <<chunks, output_dir,
                   kind, file_traces, bin_Samples, bin_Interval,
                   bin_Format, header_info>>

\* __exit__ when the body of the with statement ends: the handle is closed.
\* self.file and the cached fields are left as they are.
Exit ==
    /\ call = NoCall
    /\ with_stmt = "body"
    /\ file' = IF file = "None" THEN file ELSE "closed"
    /\ with_stmt' = "normal"
    /\ UNCHANGED <<chunks, output_dir,
                   kind, file_traces, bin_Samples, bin_Interval,
                   bin_Format, header_info, _total_traces,
                   _samples_per_trace, _sample_interval, call, result>>

\* __exit__ when a call in the body raised and the body did not catch it:
\* the handle is closed and the exception leaves the with statement.
ExitRaised ==
    /\ call # NoCall
    /\ result.status # "ok"
    /\ with_stmt = "body"
    /\ file' = IF file = "None" THEN file ELSE "closed"
    /\ with_stmt' = "raised"
    /\ call' = NoCall
    /\ result' = Ok(<<>>)
    /\ UNCHANGED <<chunks, output_dir,
                   kind, file_traces, bin_Samples, bin_Interval,
                   bin_Format, header_info, _total_traces,
                   _samples_per_trace, _sample_interval>>

\* ------------------------------------------------------- divide_by_traces
\* The loop of divide_by_traces and divide_by_depth:
\*   for start in range(start, total, size): append (start, min(start+size, total))
\* Variant: the next range starts one past the previous end.
RECURSIVE Chunks_gap(_, _, _)
Chunks_gap(start, total, size) ==
    IF start >= total
      THEN <<>>
      ELSE <<<<start, Min(start + size, total)>>>>
             \o Chunks_gap(start + size + 1, total, size)

\* Variant: the last range is not cut at total.
RECURSIVE Chunks_padded(_, _, _)
Chunks_padded(start, total, size) ==
    IF start >= total
      THEN <<>>
      ELSE <<<<start, start + size>>>> \o Chunks_padded(start + size, total, size)

RECURSIVE Chunks(_, _, _)
Chunks(start, total, size) ==
    IF start >= total
      THEN <<>>
      ELSE <<<<start, Min(start + size, total)>>>> \o Chunks(start + size, total, size)

divide_by_traces(num_traces_per_chunk) ==
    IF num_traces_per_chunk <= 0
      THEN Raise("ValueError", "not positive")
      ELSE IF _total_traces = None
        THEN Raise("TypeError", "None")
        ELSE Ok(Chunks(0, _total_traces, num_traces_per_chunk))

DivideByTraces ==
    /\ kind = "divider"
    /\ CanCall
    /\ \E n \in ChunkSizes :
         /\ call' = [op |-> "divide_by_traces", args |-> <<n>>]
         /\ result' = divide_by_traces(n)
    /\ UNCHANGED <<chunks, output_dir,
                   kind, with_stmt, file, file_traces, bin_Samples, bin_Interval,
                   bin_Format, header_info,
                   _total_traces, _samples_per_trace, _sample_interval>>

\* -------------------------------------------------------- divide_by_depth
\* Python's int() of a quotient: truncation toward zero.
TruncDiv(a, b) ==
    IF (a < 0) = (b < 0) THEN a \div b ELSE 0 - ((0 - a) \div b)

\* samples_per_chunk = int(depth_interval_ms / self.sample_interval), 0 made 1
samples_per_chunk(depth_interval, sample_interval) ==
    LET q == TruncDiv(depth_interval, sample_interval)
    IN  IF q = 0 THEN 1 ELSE q

\* Variant: a quotient of 0 is not raised to 1; range() refuses the step 0.
divide_by_depth_noclamp(depth_interval) ==
    IF depth_interval <= 0
      THEN Raise("ValueError", "not positive")
      ELSE IF _sample_interval = None
        THEN Raise("TypeError", "None")
        ELSE IF _sample_interval = 0
          THEN Raise("ZeroDivisionError", "float division by zero")
          ELSE IF TruncDiv(depth_interval, _sample_interval) = 0
            THEN Raise("ValueError", "range() arg 3 must not be zero")
            ELSE Ok(Chunks(0, _samples_per_trace,
                           TruncDiv(depth_interval, _sample_interval)))

\* Variant: the argument check lets an interval of 0 through.
divide_by_depth_lt(depth_interval) ==
    IF depth_interval < 0
      THEN Raise("ValueError", "not positive")
      ELSE IF _sample_interval = None
        THEN Raise("TypeError", "None")
        ELSE IF _sample_interval = 0
          THEN Raise("ZeroDivisionError", "float division by zero")
          ELSE Ok(Chunks(0, _samples_per_trace,
                         samples_per_chunk(depth_interval, _sample_interval)))

\* Variant: the samples left over after the last whole chunk get no chunk.
divide_by_depth_floor(depth_interval) ==
    IF depth_interval <= 0
      THEN Raise("ValueError", "not positive")
      ELSE IF _sample_interval = None
        THEN Raise("TypeError", "None")
        ELSE IF _sample_interval = 0
          THEN Raise("ZeroDivisionError", "float division by zero")
          ELSE LET spc == samples_per_chunk(depth_interval, _sample_interval)
               IN  Ok(Chunks(0, _samples_per_trace - (_samples_per_trace % spc),
                             spc))

divide_by_depth(depth_interval) ==
    IF depth_interval <= 0
      THEN Raise("ValueError", "not positive")
      ELSE IF _sample_interval = None
        THEN Raise("TypeError", "None")
        ELSE IF _sample_interval = 0
          THEN Raise("ZeroDivisionError", "float division by zero")
          ELSE Ok(Chunks(0, _samples_per_trace,
                         samples_per_chunk(depth_interval, _sample_interval)))

DivideByDepth ==
    /\ kind = "divider"
    /\ CanCall
    /\ \E d \in DepthIntervals :
         /\ call' = [op |-> "divide_by_depth", args |-> <<d>>]
         /\ result' = divide_by_depth(d)
    /\ UNCHANGED <<chunks, output_dir,
                   kind, with_stmt, file, file_traces, bin_Samples, bin_Interval,
                   bin_Format, header_info,
                   _total_traces, _samples_per_trace, _sample_interval>>

\* --------------------------------------------------------- divide_by_grid
\* The descriptor appended for trace chunk t_idx and depth chunk d_idx
\* (0-based, as enumerate yields them).  time_range_ms is in microseconds.
\* Variant: chunk_id holds the depth index first.
Descriptor_swapped(t_idx, tr, d_idx, dr, chunk_id) ==
    [chunk_id      |-> <<d_idx, t_idx>>,
     chunk_number  |-> chunk_id,
     trace_range   |-> tr,
     sample_range  |-> dr,
     time_range_ms |-> <<dr[1] * _sample_interval, dr[2] * _sample_interval>>,
     num_traces    |-> tr[2] - tr[1],
     num_samples   |-> dr[2] - dr[1]]

\* Variant: time_range_ms holds the sample range, not multiplied by the
\* sample interval.
Descriptor_unscaled(t_idx, tr, d_idx, dr, chunk_id) ==
    [chunk_id      |-> <<t_idx, d_idx>>,
     chunk_number  |-> chunk_id,
     trace_range   |-> tr,
     sample_range  |-> dr,
     time_range_ms |-> dr,
     num_traces    |-> tr[2] - tr[1],
     num_samples   |-> dr[2] - dr[1]]

\* Variant: chunk_number restarts at 0 in every trace chunk.
Descriptor_restart(t_idx, tr, d_idx, dr, chunk_id) ==
    [chunk_id      |-> <<t_idx, d_idx>>,
     chunk_number  |-> d_idx,
     trace_range   |-> tr,
     sample_range  |-> dr,
     time_range_ms |-> <<dr[1] * _sample_interval, dr[2] * _sample_interval>>,
     num_traces    |-> tr[2] - tr[1],
     num_samples   |-> dr[2] - dr[1]]

Descriptor(t_idx, tr, d_idx, dr, chunk_id) ==
    [chunk_id      |-> <<t_idx, d_idx>>,
     chunk_number  |-> chunk_id,
     trace_range   |-> tr,
     sample_range  |-> dr,
     time_range_ms |-> <<dr[1] * _sample_interval, dr[2] * _sample_interval>>,
     num_traces    |-> tr[2] - tr[1],
     num_samples   |-> dr[2] - dr[1]]

\* The inner loop over depth_chunks, from d_idx on: the descriptors it
\* appends to grid_chunks, the first of them numbered chunk_id.
RECURSIVE GridInner(_, _, _, _, _)
GridInner(t_idx, tr, depth_chunks, d_idx, chunk_id) ==
    IF d_idx >= Len(depth_chunks)
      THEN <<>>
      ELSE <<Descriptor(t_idx, tr, d_idx, depth_chunks[d_idx + 1], chunk_id)>>
             \o GridInner(t_idx, tr, depth_chunks, d_idx + 1, chunk_id + 1)

\* The outer loop over trace_chunks, from t_idx on; chunk_id has been
\* incremented once for every descriptor appended.
RECURSIVE GridOuter(_, _, _, _)
GridOuter(trace_chunks, depth_chunks, t_idx, chunk_id) ==
    IF t_idx >= Len(trace_chunks)
      THEN <<>>
      ELSE GridInner(t_idx, trace_chunks[t_idx + 1], depth_chunks, 0, chunk_id)
             \o GridOuter(trace_chunks, depth_chunks, t_idx + 1,
                          chunk_id + Len(depth_chunks))

divide_by_grid(num_traces_per_chunk, depth_interval) ==
    LET trace_chunks == divide_by_traces(num_traces_per_chunk)
        depth_chunks == divide_by_depth(depth_interval)
    IN  IF trace_chunks.status # "ok"
          THEN trace_chunks
          ELSE IF depth_chunks.status # "ok"
            THEN depth_chunks
            ELSE Ok(GridOuter(trace_chunks.value, depth_chunks.value, 0, 0))

DivideByGrid ==
    /\ kind = "divider"
    /\ CanCall
    /\ \E n \in ChunkSizes, d \in DepthIntervals :
         /\ call' = [op |-> "divide_by_grid", args |-> <<n, d>>]
         /\ result' = divide_by_grid(n, d)
    /\ UNCHANGED <<chunks, output_dir,
                   kind, with_stmt, file, file_traces, bin_Samples, bin_Interval,
                   bin_Format, header_info,
                   _total_traces, _samples_per_trace, _sample_interval>>

\* ---------------------------------------------------------- extract_chunk
\* A numpy basic slice arr[a:b] of a one-dimensional array: negative bounds
\* count from the end, both bounds are clipped to the array.
\* Variant: the slice keeps the width b - a but starts at sample 0.
PySlice_from0(arr, a, b) ==
    IF b - a <= 0 THEN <<>> ELSE SubSeq(arr, 1, Min(b - a, Len(arr)))

PySlice(arr, a, b) ==
    LET n  == Len(arr)
        lo == IF a < 0 THEN (IF a + n < 0 THEN 0 ELSE a + n) ELSE Min(a, n)
        hi == IF b < 0 THEN (IF b + n < 0 THEN 0 ELSE b + n) ELSE Min(b, n)
    IN  IF hi <= lo THEN <<>> ELSE SubSeq(arr, lo + 1, hi)

\* data[i] = v for a float32 row of width num_samples: v is copied when its
\* length is the width, a length-1 v is broadcast over the row, any other
\* length is numpy's broadcast ValueError.  The samples are float32 already.
AssignRow(num_samples, v) ==
    IF Len(v) = num_samples
      THEN Ok(v)
      ELSE IF Len(v) = 1
        THEN Ok([j \in 1..num_samples |-> v[1]])
        ELSE Raise("ValueError", "could not broadcast")

\* One iteration of the loop of extract_chunk for trace_idx.
ExtractRow(trace_idx, s_start, s_end) ==
    IF file = "None"
      THEN Raise("AttributeError", "NoneType has no attribute trace")
      ELSE IF wrapindex(trace_idx) = -1
        THEN Raise("IndexError", "trace index out of range")
        ELSE IF file = "closed"
          THEN ClosedFile
          ELSE AssignRow(s_end - s_start,
                         PySlice(TraceData(wrapindex(trace_idx)),
                                 s_start, s_end))

\* The loop of extract_chunk from trace_idx on; rows are the rows filled so
\* far.  The first iteration that raises ends the call.
RECURSIVE ExtractRows(_, _, _, _, _)
ExtractRows(rows, trace_idx, t_end, s_start, s_end) ==
    IF trace_idx >= t_end
      THEN Ok(rows)
      ELSE LET row == ExtractRow(trace_idx, s_start, s_end)
           IN  IF row.status # "ok"
                 THEN row
                 ELSE ExtractRows(Append(rows, row.value), trace_idx + 1, t_end,
                                  s_start, s_end)

\* The value is the matrix: its shape and its rows.
extract_chunk(trace_range, sample_range) ==
    LET t_start == trace_range[1]
        t_end == trace_range[2]
        s_start == sample_range[1]
        s_end == sample_range[2]
        num_traces == t_end - t_start
        num_samples == s_end - s_start
    IN  IF num_traces < 0 \/ num_samples < 0
          THEN Raise("ValueError", "negative dimensions are not allowed")
          ELSE LET data == ExtractRows(<<>>, t_start, t_end, s_start, s_end)
               IN  IF data.status # "ok"
                     THEN data
                     ELSE Ok([shape |-> <<num_traces, num_samples>>,
                              data |-> data.value])

ExtractChunk ==
    /\ kind = "divider"
    /\ CanCall
    /\ \E ts \in TraceBounds, te \in TraceBounds,
          ss \in SampleBounds, se \in SampleBounds :
         /\ call' = [op |-> "extract_chunk", args |-> <<<<ts, te>>, <<ss, se>>>>]
         /\ result' = extract_chunk(<<ts, te>>, <<ss, se>>)
    /\ UNCHANGED <<chunks, output_dir,
                   kind, with_stmt, file, file_traces, bin_Samples, bin_Interval,
                   bin_Format, header_info,
                   _total_traces, _samples_per_trace, _sample_interval>>

\* ------------------------------------------------------------- load_trace
\* Variant: the lower bound of the index is not checked; segyio wraps it.
load_trace_nolow(trace_index) ==
    IF file = "None"
      THEN Raise("ValueError", "not open")
      ELSE IF trace_index >= _total_traces
        THEN Raise("ValueError", "index out of range")
        ELSE IF wrapindex(trace_index) = -1
          THEN Raise("IndexError", "trace index out of range")
          ELSE IF file = "closed"
            THEN ClosedFile
            ELSE Ok(TraceData(wrapindex(trace_index)))

load_trace(trace_index) ==
    IF file = "None"
      THEN Raise("ValueError", "not open")
      ELSE IF trace_index < 0 \/ trace_index >= _total_traces
        THEN Raise("ValueError", "index out of range")
        ELSE IF file = "closed"
          THEN ClosedFile
          ELSE Ok(TraceData(trace_index))

LoadTrace ==
    /\ kind = "loader"
    /\ CanCall
    /\ \E i \in TraceIndices :
         /\ call' = [op |-> "load_trace", args |-> <<i>>]
         /\ result' = load_trace(i)
    /\ UNCHANGED <<chunks, output_dir,
                   kind, with_stmt, file, file_traces, bin_Samples, bin_Interval,
                   bin_Format, header_info,
                   _total_traces, _samples_per_trace, _sample_interval>>

\* ------------------------------------------------------ load_trace_header
\* The header of trace t of the file (0-based): the fields that tell the
\* traces apart, as the generator of the sample files writes them.
TraceHeader(t) ==
    [trace_sequence_file |-> t + 1,
     trace_number        |-> t + 1,
     samples_in_trace    |-> bin_Samples,
     sample_interval     |-> bin_Interval]

load_trace_header(trace_index) ==
    IF file = "None"
      THEN Raise("ValueError", "not open")
      ELSE IF trace_index >= file_traces
        THEN Raise("ValueError", "index out of range")
        ELSE IF wrapindex(trace_index) = -1
          THEN Raise("IndexError", "trace index out of range")
          ELSE IF file = "closed"
            THEN ClosedFile
            ELSE Ok(TraceHeader(wrapindex(trace_index)))

LoadTraceHeader ==
    /\ kind = "header"
    /\ CanCall
    /\ \E i \in TraceIndices :
         /\ call' = [op |-> "load_trace_header", args |-> <<i>>]
         /\ result' = load_trace_header(i)
    /\ UNCHANGED <<chunks, output_dir,
                   kind, with_stmt, file, file_traces, bin_Samples, bin_Interval,
                   bin_Format, header_info,
                   _total_traces, _samples_per_trace, _sample_interval>>

\* ------------------------------------------------------------ load_traces
\* An Optional[int] argument: NoneArg when it is omitted, <<v>> when given.
NoneArg == <<>>
Some(v) == <<v>>
OptTraceBounds == {NoneArg} \cup {Some(e) : e \in TraceBounds}
OptSampleBounds == {NoneArg} \cup {Some(e) : e \in SampleBounds}

\* One iteration of the loop of load_traces: data[i] = self.file.trace[idx].
LoadRow(trace_idx) ==
    IF wrapindex(trace_idx) = -1
      THEN Raise("IndexError", "trace index out of range")
      ELSE IF file = "closed"
        THEN ClosedFile
        ELSE AssignRow(_samples_per_trace, TraceData(wrapindex(trace_idx)))

\* The loop of load_traces over start_trace..end_trace-1: the first iteration
\* that raises ends the call, otherwise the rows are filled in order.
LoadRows(start_trace, end_trace) ==
    LET raising == {i \in start_trace..(end_trace - 1) :
                      LoadRow(i).status # "ok"}
    IN  IF raising # {}
          THEN LoadRow(CHOOSE i \in raising : \A j \in raising : i <= j)
          ELSE Ok([k \in 1..(end_trace - start_trace)
                     |-> LoadRow(start_trace + k - 1).value])

\* Variant: the lower bound of start_trace is not checked.
load_traces_nolow(start_trace, end_trace) ==
    IF file = "None"
      THEN Raise("ValueError", "not open")
      ELSE LET end == IF end_trace = NoneArg THEN _total_traces ELSE end_trace[1]
           IN  IF start_trace >= _total_traces
                 THEN Raise("ValueError", "start out of range")
                 ELSE IF end <= start_trace \/ end > _total_traces
                   THEN Raise("ValueError", "end not valid")
                   ELSE LET data == LoadRows(start_trace, end)
                        IN  IF data.status # "ok"
                              THEN data
                              ELSE Ok([shape |-> <<end - start_trace,
                                                   _samples_per_trace>>,
                                       data |-> data.value])

load_traces(start_trace, end_trace) ==
    IF file = "None"
      THEN Raise("ValueError", "not open")
      ELSE LET end == IF end_trace = NoneArg THEN _total_traces ELSE end_trace[1]
           IN  IF start_trace < 0 \/ start_trace >= _total_traces
                 THEN Raise("ValueError", "start out of range")
                 ELSE IF end <= start_trace \/ end > _total_traces
                   THEN Raise("ValueError", "end not valid")
                   ELSE LET data == LoadRows(start_trace, end)
                        IN  IF data.status # "ok"
                              THEN data
                              ELSE Ok([shape |-> <<end - start_trace,
                                                   _samples_per_trace>>,
                                       data |-> data.value])

LoadTraces ==
    /\ kind = "loader"
    /\ CanCall
    /\ \E start \in TraceBounds, end \in OptTraceBounds :
         /\ call' = [op |-> "load_traces", args |-> <<start, end>>]
         /\ result' = load_traces(start, end)
    /\ UNCHANGED <<chunks, output_dir,
                   kind, with_stmt, file, file_traces, bin_Samples, bin_Interval,
                   bin_Format, header_info,
                   _total_traces, _samples_per_trace, _sample_interval>>

\* ------------------------------------------------------- load_depth_slice
\* data[:, start_sample:end_sample] of the matrix load_traces returned.
SliceColumns(matrix, start_sample, end_sample) ==
    LET rows == [i \in 1..Len(matrix.data)
                   |-> PySlice(matrix.data[i], start_sample, end_sample)]
    IN  [shape |-> <<matrix.shape[1],
                     Len(PySlice([j \in 1..matrix.shape[2] |-> 0],
                                 start_sample, end_sample))>>,
         data |-> rows]

\* Variant: end_sample is not checked against samples_per_trace.
load_depth_slice_noend(start_sample, end_sample, start_trace, end_trace) ==
    IF _samples_per_trace = None
      THEN Raise("ValueError", "not open")
      ELSE LET end_s == IF end_sample = NoneArg
                          THEN _samples_per_trace ELSE end_sample[1]
               end_t == IF end_trace = NoneArg
                          THEN Some(_total_traces) ELSE end_trace
           IN  IF start_sample < 0 \/ start_sample >= _samples_per_trace
                 THEN Raise("ValueError", "start sample out of range")
                 ELSE IF end_s <= start_sample
                   THEN Raise("ValueError", "end sample not valid")
                   ELSE LET data == load_traces(start_trace, end_t)
                        IN  IF data.status # "ok"
                              THEN data
                              ELSE Ok(SliceColumns(data.value, start_sample, end_s))

\* The defaults are read through the samples_per_trace and total_traces
\* properties, which raise ValueError before __enter__.
load_depth_slice(start_sample, end_sample, start_trace, end_trace) ==
    IF _samples_per_trace = None
      THEN Raise("ValueError", "not open")
      ELSE LET end_s == IF end_sample = NoneArg
                          THEN _samples_per_trace ELSE end_sample[1]
               end_t == IF end_trace = NoneArg
                          THEN Some(_total_traces) ELSE end_trace
           IN  IF start_sample < 0 \/ start_sample >= _samples_per_trace
                 THEN Raise("ValueError", "start sample out of range")
                 ELSE IF end_s <= start_sample \/ end_s > _samples_per_trace
                   THEN Raise("ValueError", "end sample not valid")
                   ELSE LET data == load_traces(start_trace, end_t)
                        IN  IF data.status # "ok"
                              THEN data
                              ELSE Ok(SliceColumns(data.value, start_sample, end_s))

\* Variant: the loader keeps the width of the last slice as its sample count.
LoadDepthSlice_narrow ==
    /\ kind = "loader"
    /\ CanCall
    /\ \E ss \in SampleBounds, se \in OptSampleBounds,
          ts \in TraceBounds, te \in OptTraceBounds :
         /\ call' = [op |-> "load_depth_slice", args |-> <<ss, se, ts, te>>]
         /\ result' = load_depth_slice(ss, se, ts, te)
         /\ _samples_per_trace' = IF result'.status = "ok"
                                    THEN result'.value.shape[2]
                                    ELSE _samples_per_trace
    /\ UNCHANGED <<chunks, output_dir,
                   kind, with_stmt, file, file_traces, bin_Samples, bin_Interval,
                   bin_Format, header_info,
                   _total_traces, _sample_interval>>

LoadDepthSlice ==
    /\ kind = "loader"
    /\ CanCall
    /\ \E ss \in SampleBounds, se \in OptSampleBounds,
          ts \in TraceBounds, te \in OptTraceBounds :
         /\ call' = [op |-> "load_depth_slice", args |-> <<ss, se, ts, te>>]
         /\ result' = load_depth_slice(ss, se, ts, te)
    /\ UNCHANGED <<chunks, output_dir,
                   kind, with_stmt, file, file_traces, bin_Samples, bin_Interval,
                   bin_Format, header_info,
                   _total_traces, _samples_per_trace, _sample_interval>>

\* ------------------- properties total_traces, samples_per_trace, sample_interval
\* The divider's properties return the cached field as it is (None before
\* __enter__); the loader's raise ValueError while the field is None.
\* Neither looks at the handle.
Property(cached) ==
    IF kind = "loader" /\ cached = None
      THEN Raise("ValueError", "not open")
      ELSE Ok(cached)

total_traces == Property(_total_traces)

samples_per_trace == Property(_samples_per_trace)

sample_interval == Property(_sample_interval)

ReadProperty ==
    /\ kind \in {"divider", "loader"}
    /\ CanCall
    /\ \/ /\ call' = [op |-> "total_traces", args |-> <<>>]
          /\ result' = total_traces
       \/ /\ call' = [op |-> "samples_per_trace", args |-> <<>>]
          /\ result' = samples_per_trace
       \/ /\ call' = [op |-> "sample_interval", args |-> <<>>]
          /\ result' = sample_interval
    /\ UNCHANGED <<chunks, output_dir,
                   kind, with_stmt, file, file_traces, bin_Samples, bin_Interval,
                   bin_Format, header_info,
                   _total_traces, _samples_per_trace, _sample_interval>>

\* ------------------------------------------------------ get_data_statistics
\* The trace count above which get_data_statistics samples the traces.
MaxSampleTraces == 1000

load_all_data ==
    IF file = "None"
      THEN Raise("ValueError", "not open")
      ELSE load_traces(0, Some(_total_traces))

\* matrix[::step] for step >= 1: rows 0, step, 2 * step, ... of the matrix.
Stride(matrix, step) ==
    LET n == (matrix.shape[1] + step - 1) \div step
    IN  [shape |-> <<n, matrix.shape[2]>>,
         data |-> [k \in 1..n |-> matrix.data[(k - 1) * step + 1]]]

\* The local variable data of get_data_statistics(None): the matrix the
\* statistics are computed over.
StatisticsData ==
    IF _total_traces = None
      THEN Raise("ValueError", "not open")
      ELSE IF _total_traces > MaxSampleTraces
        THEN LET step == _total_traces \div MaxSampleTraces
                 all == load_traces(0, Some(_total_traces))
             IN  IF all.status # "ok" THEN all ELSE Ok(Stride(all.value, step))
        ELSE load_all_data

\* np.min and np.max over the matrix (it has at least one row and column).
Elements(matrix) ==
    {matrix.data[i][j] : i \in 1..matrix.shape[1], j \in 1..matrix.shape[2]}

\* Of the statistics the shape, the minimum and the maximum are kept.
get_data_statistics ==
    LET data == StatisticsData
    IN  IF data.status # "ok"
          THEN data
          ELSE LET E == Elements(data.value)
               IN  Ok([shape |-> data.value.shape,
                       min |-> CHOOSE x \in E : \A y \in E : x <= y,
                       max |-> CHOOSE x \in E : \A y \in E : y <= x])

GetDataStatistics ==
    /\ kind = "loader"
    /\ CanCall
    /\ call' = [op |-> "get_data_statistics", args |-> <<NoneArg>>]
    /\ result' = get_data_statistics
    /\ UNCHANGED <<chunks, output_dir,
                   kind, with_stmt, file, file_traces, bin_Samples, bin_Interval,
                   bin_Format, header_info,
                   _total_traces, _samples_per_trace, _sample_interval>>

\* -------------------------------------------------------- save_all_chunks
\* chunks = divider.divide_by_grid(n, ms): the caller keeps the grid the call
\* returned.  The variable is assigned once.
KeepChunks ==
    /\ call.op = "divide_by_grid"
    /\ result.status = "ok"
    /\ chunks = NoChunks
    /\ chunks' = [args |-> call.args, grid |-> result.value]
    /\ call' = NoCall
    /\ result' = Ok(<<>>)
    /\ UNCHANGED <<output_dir, kind, with_stmt, file, file_traces, bin_Samples,
                   bin_Interval,
                   bin_Format, header_info, _total_traces, _samples_per_trace,
                   _sample_interval>>

\* The decimal digits of n >= 0, most significant first.
RECURSIVE Digits(_)
Digits(n) == IF n < 10 THEN <<n>> ELSE Append(Digits(n \div 10), n % 10)

\* f"{chunk_num:04d}": the digits, padded with zeros on the left to 4.
Format04d(chunk_num) ==
    LET ds == Digits(chunk_num)
    IN  IF Len(ds) >= 4 THEN ds ELSE [i \in 1..(4 - Len(ds)) |-> 0] \o ds

\* filename = f"{prefix}_{chunk_num:04d}.npy"
filename(prefix, chunk_num) ==
    [prefix |-> prefix, number |-> Format04d(chunk_num), suffix |-> ".npy"]

\* The artifact save_all_chunks writes for chunk_info: the matrix under the
\* file name and the metadata beside it (source_file is left out).
Artifact(chunk_info, data) ==
    [name     |-> filename("chunk", chunk_info.chunk_number),
     data     |-> data.data,
     metadata |-> [chunk_id      |-> chunk_info.chunk_id,
                   chunk_number  |-> chunk_info.chunk_number,
                   trace_range   |-> chunk_info.trace_range,
                   sample_range  |-> chunk_info.sample_range,
                   time_range_ms |-> chunk_info.time_range_ms,
                   shape         |-> data.shape]]

\* The matrix extracted for the k-th descriptor of the list.
ChunkData(chunk_list, k) ==
    extract_chunk(chunk_list[k].trace_range, chunk_list[k].sample_range)

\* The number of descriptors the loop of save_all_chunks saves before it
\* ends: all of them, or those before the first whose extraction raises.
Saved(chunk_list) ==
    LET raising == {k \in 1..Len(chunk_list) :
                      ChunkData(chunk_list, k).status # "ok"}
    IN  IF raising = {}
          THEN Len(chunk_list)
          ELSE (CHOOSE k \in raising : \A j \in raising : k <= j) - 1

\* The directory after the loop: an artifact replaces the one of its name.
Written(dir, chunk_list) ==
    LET done == Saved(chunk_list)
        art(k) == Artifact(chunk_list[k], ChunkData(chunk_list, k).value)
        last == {k \in 1..done :
                   \A j \in (k + 1)..done : art(j).name # art(k).name}
    IN  {a \in dir : \A k \in 1..done : art(k).name # a.name}
          \cup {art(k) : k \in last}

save_all_chunks(chunk_list) ==
    IF Saved(chunk_list) = Len(chunk_list)
      THEN Ok(<<>>)
      ELSE ChunkData(chunk_list, Saved(chunk_list) + 1)

\* divider.save_all_chunks(chunks, output_dir) on the grid the caller kept.
SaveAllChunks ==
    /\ kind = "divider"
    /\ CanCall
    /\ chunks # NoChunks
    /\ call' = [op |-> "save_all_chunks", args |-> <<>>]
    /\ result' = save_all_chunks(chunks.grid)
    /\ output_dir' = Written(output_dir, chunks.grid)
    /\ UNCHANGED <<chunks, kind, with_stmt, file, file_traces, bin_Samples,
                   bin_Interval,
                   bin_Format, header_info, _total_traces, _samples_per_trace,
                   _sample_interval>>

\* ---------------------------------------------------------- get_file_info
\* The fields of the binary header that get_file_info uses; reading them
\* through a closed handle raises.
load_binary_header ==
    IF file = "None"
      THEN Raise("ValueError", "not open")
      ELSE IF file = "closed"
        THEN ClosedFile
        ELSE Ok([sample_interval    |-> bin_Interval,
                 samples_per_trace  |-> bin_Samples,
                 data_sample_format |-> bin_Format])

\* format_dict.get(format_code, f'Unknown ({format_code})')
data_format(format_code) ==
    CASE format_code = 1 -> <<"IBM floating point (4 bytes)">>
      [] format_code = 2 -> <<"4-byte integer">>
      [] format_code = 3 -> <<"2-byte integer">>
      [] format_code = 5 -> <<"IEEE floating point (4 bytes)">>
      [] format_code = 8 -> <<"1-byte integer">>
      [] OTHER -> <<"Unknown", format_code>>

\* Variant: every format code is given 4 bytes.
bytes_per_sample_all4(format_code) == 4

\* {1: 4, 2: 4, 3: 2, 5: 4, 8: 1}.get(format_code, 4)
bytes_per_sample(format_code) ==
    CASE format_code = 1 -> 4
      [] format_code = 2 -> 4
      [] format_code = 3 -> 2
      [] format_code = 5 -> 4
      [] format_code = 8 -> 1
      [] OTHER -> 4

\* round(size / (1024 * 1024), 2) of a size in bytes, in hundredths of a MB:
\* the nearest integer to size * 100 / 2^20, the even one at a tie.
RoundMB(size) ==
    LET q == (size * 100) \div (1024 * 1024)
        r == (size * 100) % (1024 * 1024)
    IN  IF 2 * r > 1024 * 1024 \/ (2 * r = 1024 * 1024 /\ q % 2 = 1)
          THEN q + 1
          ELSE q

\* The info dictionary: of its entries, those computed from the trace count,
\* the sample count, the interval and the format code.
get_file_info ==
    LET bin_header == load_binary_header
    IN  IF bin_header.status # "ok"
          THEN bin_header
          ELSE LET format_code == bin_header.value.data_sample_format
                   spt == bin_header.value.samples_per_trace
               IN  Ok([total_traces        |-> file_traces,
                       samples_per_trace   |-> spt,
                       sample_interval_us  |-> bin_header.value.sample_interval,
                       total_time_depth_ms |-> spt * bin_header.value.sample_interval,
                       data_format         |-> data_format(format_code),
                       format_code         |-> format_code,
                       total_data_size_mb  |->
                         RoundMB(file_traces * spt * bytes_per_sample(format_code)),
                       binary_header       |-> bin_header.value])

\* get_file_info also keeps the dictionary in self.header_info.
GetFileInfo ==
    /\ kind = "header"
    /\ CanCall
    /\ call' = [op |-> "get_file_info", args |-> <<>>]
    /\ result' = get_file_info
    /\ header_info' = IF get_file_info.status = "ok"
                        THEN <<get_file_info.value>>
                        ELSE header_info
    /\ UNCHANGED <<chunks, output_dir, kind, with_stmt, file, file_traces,
                   bin_Samples, bin_Interval, bin_Format, _total_traces,
                   _samples_per_trace, _sample_interval>>

\* The caller takes what the call returned or raised; the next call can start.
Return ==
    /\ call # NoCall
    /\ call' = NoCall
    /\ result' = Ok(<<>>)
    /\ UNCHANGED <<chunks, output_dir,
                   kind, with_stmt, file, file_traces, bin_Samples, bin_Interval,
                   bin_Format, header_info,
                   _total_traces, _samples_per_trace, _sample_interval>>

Next ==
    \/ Enter
    \/ EnterFails
    \/ Exit
    \/ ExitRaised
    \/ DivideByTraces
    \/ DivideByDepth
    \/ DivideByGrid
    \/ ExtractChunk
    \/ LoadTrace
    \/ LoadTraceHeader
    \/ LoadTraces
    \/ LoadDepthSlice
    \/ ReadProperty
    \/ GetDataStatistics
    \/ Return

Spec == Init /\ [][Next]_vars

\* ------------------------------------------------ a divider whose grid is saved
\* A divider is constructed; the caller will keep a grid and save it.
InitSave == Init /\ kind = "divider"

NextSave ==
    \/ Enter
    \/ Exit
    \/ ExitRaised
    \/ DivideByGrid
    \/ KeepChunks
    \/ SaveAllChunks
    \/ Return

SpecSave == InitSave /\ [][NextSave]_vars

\* ------------------------------------------------- loaders over large files
\* Trace counts around the sampling threshold of get_data_statistics and its
\* multiples.
LargeTraceCounts ==
    {1, 2, MaxSampleTraces - 1, MaxSampleTraces, MaxSampleTraces + 1,
     2 * MaxSampleTraces - 1, 2 * MaxSampleTraces, 2 * MaxSampleTraces + 1}

\* A loader constructed over a file of one of these trace counts.
InitLarge ==
    /\ kind = "loader"
    /\ chunks = NoChunks
    /\ output_dir = {}
    /\ with_stmt = "new"
    /\ file = "None"
    /\ file_traces \in LargeTraceCounts
    /\ bin_Samples \in SampleCounts
    /\ bin_Interval \in FileIntervals
    /\ bin_Format = sample_format
    /\ header_info = <<>>
    /\ _total_traces = None
    /\ _samples_per_trace = None
    /\ _sample_interval = None
    /\ call = NoCall
    /\ result = Ok(<<>>)

NextLarge ==
    \/ Enter
    \/ EnterFails
    \/ Exit
    \/ ExitRaised
    \/ ReadProperty
    \/ LoadTrace
    \/ GetDataStatistics
    \/ Return

SpecLarge == InitLarge /\ [][NextLarge]_vars

\* ------------------------------------- divide_segy_file over sample files
\* The <<traces, samples>> of the files create_sample_segy writes: the tiny,
\* the small (the default) and the medium one.
SampleFiles == {<<20, 100>>, <<n_traces, n_samples>>, <<100, 500>>}

\* num_traces_per_chunk and depth_interval_ms (in microseconds) passed to
\* divide_segy_file.
SegyChunkSizes == {-1, 0, 25, 50, 51, default_num_traces_per_chunk, 200}
SegyDepthIntervals ==
    {-1000, 0, 100 * 1000, 200 * 1000, 499 * 1000,
     default_depth_interval_ms, 1000 * 1000, 2000 * 1000}

\* The path of a sample file is ready to be passed to divide_segy_file.
InitSample ==
    /\ kind = "divider"
    /\ chunks = NoChunks
    /\ output_dir = {}
    /\ with_stmt = "new"
    /\ file = "None"
    /\ \E f \in SampleFiles : file_traces = f[1] /\ bin_Samples = f[2]
    /\ bin_Interval = sample_interval_us
    /\ bin_Format = sample_format
    /\ header_info = <<>>
    /\ _total_traces = None
    /\ _samples_per_trace = None
    /\ _sample_interval = None
    /\ call = NoCall
    /\ result = Ok(<<>>)

\* divide_segy_file(filepath, n, ms) with save_chunks False: the divider is
\* entered, divide_by_grid is called in the with body, the divider is left
\* and the chunks are returned (or the exception of divide_by_grid leaves).
DivideSegyFile ==
    /\ kind = "divider"
    /\ call = NoCall
    /\ with_stmt = "new"
    /\ file = "None"
    /\ _total_traces' = file_traces
    /\ _samples_per_trace' = bin_Samples
    /\ _sample_interval' = bin_Interval
    /\ \E n \in SegyChunkSizes, d \in SegyDepthIntervals :
         /\ call' = [op |-> "divide_segy_file", args |-> <<n, d>>]
         /\ result' = divide_by_grid(n, d)'
    /\ file' = "closed"
    /\ with_stmt' = IF result'.status = "ok" THEN "normal" ELSE "raised"
    /\ UNCHANGED <<chunks, output_dir,
                   kind, file_traces, bin_Samples, bin_Interval,
                   bin_Format, header_info>>

NextSample ==
    \/ DivideSegyFile
    \/ Return

SpecSample == InitSample /\ [][NextSample]_vars

\* ------------------------------------- header loaders over sample formats
\* The data sample format codes drawn: the five get_file_info names and
\* others a binary header can hold.
FormatCodes == 0..9

\* A header loader constructed over a sample file written with one of the
\* format codes.
InitInfo ==
    /\ kind = "header"
    /\ chunks = NoChunks
    /\ output_dir = {}
    /\ with_stmt = "new"
    /\ file = "None"
    /\ \E f \in SampleFiles : file_traces = f[1] /\ bin_Samples = f[2]
    /\ bin_Interval \in FileIntervals
    /\ bin_Format \in FormatCodes
    /\ header_info = <<>>
    /\ _total_traces = None
    /\ _samples_per_trace = None
    /\ _sample_interval = None
    /\ call = NoCall
    /\ result = Ok(<<>>)

NextInfo ==
    \/ Enter
    \/ Exit
    \/ GetFileInfo
    \/ Return

SpecInfo == InitInfo /\ [][NextInfo]_vars

\* ================================================================ claims
\* The cells (indices) of a half-open range <<start, end>>.
Cells(r) == r[1]..(r[2] - 1)

\* ranges is ordered by start, contiguous, starts at 0 and ends at total when
\* it is not empty, pairwise disjoint, and covers exactly 0..total-1.
IsPartition(ranges, total) ==
    /\ \A k \in 1..(Len(ranges) - 1) : ranges[k][1] < ranges[k + 1][1]
    /\ \A k \in 1..(Len(ranges) - 1) : ranges[k][2] = ranges[k + 1][1]
    /\ Len(ranges) > 0 => ranges[1][1] = 0 /\ ranges[Len(ranges)][2] = total
    /\ \A k \in 1..Len(ranges) : \A l \in 1..Len(ranges) :
         k # l => Cells(ranges[k]) \cap Cells(ranges[l]) = {}
    /\ UNION {Cells(ranges[k]) : k \in 1..Len(ranges)} = 0..(total - 1)

\* C1: on an entered divider, for every total_traces >= 0 and chunk size
\* n > 0, divide_by_traces(n) returns a list ordered by ascending start whose
\* first range starts at 0, whose ranges abut, whose last range ends at
\* total_traces and whose ranges are pairwise disjoint with union
\* [0, total_traces).
C1_TracePartition ==
    (call.op = "divide_by_traces" /\ file = "open" /\ call.args[1] > 0)
      => /\ result.status = "ok"
         /\ IsPartition(result.value, _total_traces)

\* A call that returned at least three abutting ranges, up to the last trace.
C1_Witness ==
    /\ call.op = "divide_by_traces"
    /\ result.status = "ok"
    /\ Len(result.value) >= 3
    /\ Cells(result.value[Len(result.value)]) = {_total_traces - 1}

\* C2: for total_traces > 0 and n > 0 every range of divide_by_traces(n) but
\* the last has length exactly n, and the last has length
\* total_traces - n*(k-1), between 1 and n, k being the number of ranges.
\* The loop of the code on total = 137, n = 23 gives (0,23), (23,46), ...,
\* (115,137).
C2_ChunkLengths ==
    /\ (call.op = "divide_by_traces" /\ file = "open" /\ call.args[1] > 0
          /\ _total_traces > 0)
         => /\ result.status = "ok"
            /\ LET r == result.value
                   k == Len(r)
                   n == call.args[1]
                   last == r[k][2] - r[k][1]
               IN  /\ k >= 1
                   /\ \A i \in 1..(k - 1) : r[i][2] - r[i][1] = n
                   /\ last = _total_traces - n * (k - 1)
                   /\ 1 <= last /\ last <= n
    /\ call.op = "divide_by_traces"
         => Chunks(0, 137, 23) = <<<<0, 23>>, <<23, 46>>, <<46, 69>>, <<69, 92>>,
                                   <<92, 115>>, <<115, 137>>>>

\* A call with a truncated last range: total_traces is no multiple of n.
C2_Witness ==
    /\ call.op = "divide_by_traces"
    /\ result.status = "ok"
    /\ Len(result.value) >= 2
    /\ LET r == result.value
       IN  r[Len(r)][2] - r[Len(r)][1] < call.args[1]

Max(a, b) == IF a > b THEN a ELSE b

\* The k-th (1-based) of the consecutive ranges of length size over
\* [0, total), the last one cut at total.
KthRange(k, size, total) == <<(k - 1) * size, Min(k * size, total)>>

\* ranges are exactly the consecutive ranges of length size over [0, total).
IsChunking(ranges, size, total) ==
    /\ Len(ranges) * size >= total
    /\ (Len(ranges) - 1) * size < total \/ Len(ranges) = 0
    /\ \A k \in 1..Len(ranges) : ranges[k] = KthRange(k, size, total)

\* C3: for every interval_ms > 0, divide_by_depth(interval_ms) on an entered
\* divider returns the consecutive ranges of length
\* max(1, floor(interval_ms / sample_interval_ms)), the last one truncated,
\* and they are ordered, pairwise disjoint and cover [0, samples_per_trace).
\* Stated on the files that hold at least one trace.
C3_DepthPartition ==
    (call.op = "divide_by_depth" /\ file = "open" /\ file_traces >= 1
       /\ call.args[1] > 0)
      => /\ result.status = "ok"
         /\ IsChunking(result.value,
                       Max(1, call.args[1] \div _sample_interval),
                       _samples_per_trace)
         /\ IsPartition(result.value, _samples_per_trace)

\* The statement of C3 on the files whose header Interval is positive; it
\* holds there.
C3_PositiveInterval ==
    (call.op = "divide_by_depth" /\ file = "open" /\ call.args[1] > 0
       /\ _sample_interval > 0)
      => /\ result.status = "ok"
         /\ IsChunking(result.value,
                       Max(1, call.args[1] \div _sample_interval),
                       _samples_per_trace)
         /\ IsPartition(result.value, _samples_per_trace)

\* A depth partition of several ranges with a truncated last range.
C3_Witness ==
    /\ call.op = "divide_by_depth"
    /\ result.status = "ok"
    /\ Len(result.value) = 2
    /\ result.value[1] = <<0, 2>>
    /\ result.value[2] = <<2, 3>>

\* C4: for 0 < interval_ms < sample_interval_ms, divide_by_depth raises
\* nothing and returns exactly samples_per_trace ranges, the i-th (0-based)
\* being (i, i+1).
C4_SingleSampleChunks ==
    (call.op = "divide_by_depth" /\ file = "open"
       /\ 0 < call.args[1] /\ call.args[1] < _sample_interval)
      => /\ result.status = "ok"
         /\ Len(result.value) = _samples_per_trace
         /\ \A i \in 0..(_samples_per_trace - 1) :
              result.value[i + 1] = <<i, i + 1>>

\* An interval below the sample interval on a file of several samples.
C4_Witness ==
    /\ call.op = "divide_by_depth"
    /\ file = "open"
    /\ 0 < call.args[1] /\ call.args[1] < _sample_interval
    /\ _samples_per_trace >= 3
    /\ result.status = "ok"

\* C5: divide_by_grid(n, ms) raises what divide_by_traces(n) or, after it,
\* divide_by_depth(ms) raises; otherwise it returns their Cartesian product
\* in trace-major order: the descriptor at position k (0-based) has
\* chunk_number k and chunk_id (t, d) with k = t*D + d, D the number of
\* depth ranges, its trace_range the t-th trace range and its sample_range
\* the d-th depth range.
C5_GridOrder ==
    (call.op = "divide_by_grid" /\ file = "open")
      => LET T == divide_by_traces(call.args[1])
             D == divide_by_depth(call.args[2])
             g == result.value
         IN  IF T.status # "ok" THEN result = T
             ELSE IF D.status # "ok" THEN result = D
             ELSE /\ result.status = "ok"
                  /\ Len(g) = Len(T.value) * Len(D.value)
                  /\ \A k \in 0..(Len(g) - 1) :
                       LET t == g[k + 1].chunk_id[1]
                           d == g[k + 1].chunk_id[2]
                       IN  /\ g[k + 1].chunk_number = k
                           /\ 0 <= t /\ t < Len(T.value)
                           /\ 0 <= d /\ d < Len(D.value)
                           /\ k = t * Len(D.value) + d
                           /\ g[k + 1].trace_range = T.value[t + 1]
                           /\ g[k + 1].sample_range = D.value[d + 1]

\* The grid of 3 trace ranges and 2 depth ranges, numbered
\* (0,0)=0, (0,1)=1, (1,0)=2, (1,1)=3, (2,0)=4, (2,1)=5.
C5_Witness ==
    /\ call.op = "divide_by_grid"
    /\ result.status = "ok"
    /\ Len(result.value) = 6
    /\ [k \in 1..6 |-> result.value[k].chunk_id]
         = <<<<0, 0>>, <<0, 1>>, <<1, 0>>, <<1, 1>>, <<2, 0>>, <<2, 1>>>>
    /\ [k \in 1..6 |-> result.value[k].chunk_number] = <<0, 1, 2, 3, 4, 5>>

\* C6: divide_by_traces(n) with n <= 0 and divide_by_depth(ms) with ms <= 0
\* raise ValueError and return no ranges; on an entered divider
\* divide_by_grid(n, ms) raises ValueError whenever n <= 0 or ms <= 0.
C6_InvalidArgument ==
    /\ (call.op = "divide_by_traces" /\ call.args[1] <= 0)
         => result.status = "ValueError"
    /\ (call.op = "divide_by_depth" /\ call.args[1] <= 0)
         => result.status = "ValueError"
    /\ (call.op = "divide_by_grid" /\ file = "open"
          /\ (call.args[1] <= 0 \/ call.args[2] <= 0))
         => result.status = "ValueError"

\* A grid call with a valid chunk size and an interval of 0 that was refused.
C6_Witness ==
    /\ call.op = "divide_by_grid"
    /\ file = "open"
    /\ call.args[1] > 0
    /\ call.args[2] = 0
    /\ _sample_interval > 0
    /\ result.status = "ValueError"

\* The rectangle (ts, te) x (ss, se) lies within the file and is not empty.
InBounds(trace_range, sample_range) ==
    /\ 0 <= trace_range[1] /\ trace_range[1] < trace_range[2]
    /\ trace_range[2] <= file_traces
    /\ 0 <= sample_range[1] /\ sample_range[1] < sample_range[2]
    /\ sample_range[2] <= bin_Samples

\* C7: for 0 <= ts < te <= total_traces and 0 <= ss < se <= samples_per_trace
\* extract_chunk returns a matrix of shape (te - ts, se - ss) whose element
\* [i][j] is sample ss + j of trace ts + i of the file.
C7_ExtractInBounds ==
    (call.op = "extract_chunk" /\ file = "open"
       /\ InBounds(call.args[1], call.args[2]))
      => LET ts == call.args[1][1]
             te == call.args[1][2]
             ss == call.args[2][1]
             se == call.args[2][2]
         IN  /\ result.status = "ok"
             /\ result.value.shape = <<te - ts, se - ss>>
             /\ Len(result.value.data) = te - ts
             /\ \A i \in 0..(te - ts - 1) :
                  /\ Len(result.value.data[i + 1]) = se - ss
                  /\ \A j \in 0..(se - ss - 1) :
                       result.value.data[i + 1][j + 1] = SampleValue(ts + i, ss + j)

\* An extraction of two traces by two samples away from the origin.
C7_Witness ==
    /\ call.op = "extract_chunk"
    /\ file = "open"
    /\ call.args = <<<<1, 3>>, <<1, 3>>>>
    /\ result.status = "ok"
    /\ result.value.shape = <<2, 2>>

\* C8: extract_chunk fails with an error and returns no data whenever the
\* trace range is not within [0, total_traces) or the sample range is not
\* within [0, samples_per_trace): a negative start, an end beyond the bound,
\* or start >= end.  Stated on the files that hold at least one trace.
C8_ExtractBoundsChecked ==
    (call.op = "extract_chunk" /\ file = "open" /\ file_traces >= 1
       /\ ~InBounds(call.args[1], call.args[2]))
      => result.status # "ok"

\* extract_chunk((-1, 1), (0, 1)) on a file of 2 traces returned sample 0 of
\* the last trace and then of the first one.
C8_ReadsOutside ==
    /\ call.op = "extract_chunk"
    /\ file = "open"
    /\ file_traces = 2
    /\ call.args = <<<<-1, 1>>, <<0, 1>>>>
    /\ result = Ok([shape |-> <<2, 1>>,
                    data |-> <<<<SampleValue(1, 0)>>, <<SampleValue(0, 0)>>>>])

\* extract_chunk((0, 1), (2, 4)) on a file of 3 samples per trace returned a
\* row of width 2 filled with sample 2 alone.
C8_Broadcasts ==
    /\ call.op = "extract_chunk"
    /\ file = "open"
    /\ bin_Samples = 3
    /\ call.args = <<<<0, 1>>, <<2, 4>>>>
    /\ result = Ok([shape |-> <<1, 2>>,
                    data |-> <<<<SampleValue(0, 2), SampleValue(0, 2)>>>>])

\* C9: on an open loader load_trace(i) returns trace i exactly when
\* 0 <= i < total_traces and raises the out-of-range ValueError for every
\* other index, among them i = total_traces and the negative ones.
C9_LoadTraceBounds ==
    (call.op = "load_trace" /\ file = "open")
      => LET i == call.args[1]
         IN  IF 0 <= i /\ i < file_traces
               THEN /\ result.status = "ok"
                    /\ Len(result.value) = bin_Samples
                    /\ \A j \in 0..(bin_Samples - 1) :
                         result.value[j + 1] = SampleValue(i, j)
               ELSE result = Raise("ValueError", "index out of range")

\* load_trace(-1) on an open loader of a file that has traces was refused.
C9_Witness ==
    /\ call.op = "load_trace"
    /\ file = "open"
    /\ file_traces >= 2
    /\ call.args[1] = -1
    /\ result.status = "ValueError"

\* C10: load_trace_header(i) on an open header loader returns the header of
\* trace i exactly when 0 <= i < total_traces and raises an error for every
\* other index, the negative ones included.
C10_LoadTraceHeaderBounds ==
    (call.op = "load_trace_header" /\ file = "open")
      => LET i == call.args[1]
         IN  IF 0 <= i /\ i < file_traces
               THEN result = Ok(TraceHeader(i))
               ELSE result.status # "ok"

\* The value of an Optional[int] argument, d standing in when it is omitted.
OrDefault(opt, d) == IF opt = NoneArg THEN d ELSE opt[1]

\* matrix holds rows ts..te-1 of the file cut to the samples ss..se-1.
IsRectangle(matrix, ts, te, ss, se) ==
    /\ matrix.shape = <<te - ts, se - ss>>
    /\ Len(matrix.data) = te - ts
    /\ \A i \in 0..(te - ts - 1) :
         /\ Len(matrix.data[i + 1]) = se - ss
         /\ \A j \in 0..(se - ss - 1) :
              matrix.data[i + 1][j + 1] = SampleValue(ts + i, ss + j)

\* C11: on an open loader load_traces(start, end), end exclusive and
\* total_traces when omitted, succeeds exactly when
\* 0 <= start < end <= total_traces, returning end - start rows, row i being
\* trace start + i; for every other (start, end) it raises and returns no data.
C11_LoadTracesBounds ==
    (call.op = "load_traces" /\ file = "open")
      => LET start == call.args[1]
             end == OrDefault(call.args[2], file_traces)
         IN  IF 0 <= start /\ start < end /\ end <= file_traces
               THEN /\ result.status = "ok"
                    /\ IsRectangle(result.value, start, end, 0, bin_Samples)
               ELSE result.status # "ok"

\* load_traces(1) with end omitted returned the traces 1 .. total_traces - 1.
C11_Witness ==
    /\ call.op = "load_traces"
    /\ file = "open"
    /\ call.args = <<1, NoneArg>>
    /\ result.status = "ok"
    /\ result.value.shape[1] = file_traces - 1
    /\ file_traces >= 3

\* C12: load_depth_slice(sample_start, sample_end, trace_start, trace_end) on
\* an open loader succeeds exactly when
\* 0 <= sample_start < sample_end <= samples_per_trace and
\* 0 <= trace_start < trace_end <= total_traces, returning a matrix of shape
\* (trace_end - trace_start, sample_end - sample_start); any violated bound
\* raises and returns no data.
C12_DepthSliceBounds ==
    (call.op = "load_depth_slice" /\ file = "open")
      => LET ss == call.args[1]
             se == OrDefault(call.args[2], bin_Samples)
             ts == call.args[3]
             te == OrDefault(call.args[4], file_traces)
         IN  IF InBounds(<<ts, te>>, <<ss, se>>)
               THEN /\ result.status = "ok"
                    /\ IsRectangle(result.value, ts, te, ss, se)
               ELSE result.status # "ok"

\* A slice of two traces by two samples away from the origin.
C12_Witness ==
    /\ call.op = "load_depth_slice"
    /\ file = "open"
    /\ call.args = <<1, Some(3), 1, Some(3)>>
    /\ result.status = "ok"
    /\ result.value.shape = <<2, 2>>

\* C13: after the with statement over a container has ended and closed the
\* handle, every operation called on the container fails with the
\* closed-file error; none returns a value.
\* (Does not hold: __exit__ closes the handle and keeps the cached fields, so
\* the divide_by_* methods and the properties still return values, and the
\* argument checks of the reads still raise their own errors.)
C13_ClosedFails ==
    (file = "closed" /\ call # NoCall /\ file_traces >= 1 /\ bin_Interval > 0)
      => result = ClosedFile

\* What does hold after the close: a read whose arguments are in range
\* reaches the closed handle and fails with the closed-file error.
C13_ReadsFail ==
    (file = "closed" /\ file_traces >= 1)
      => /\ (call.op = "load_trace" /\ call.args[1] \in 0..(file_traces - 1))
              => result = ClosedFile
         /\ (call.op = "load_trace_header"
               /\ call.args[1] \in 0..(file_traces - 1))
              => result = ClosedFile
         /\ (call.op = "extract_chunk"
               /\ InBounds(call.args[1], call.args[2]))
              => result = ClosedFile
         /\ (call.op = "load_traces"
               /\ InBounds(<<call.args[1], OrDefault(call.args[2], file_traces)>>,
                           <<0, bin_Samples>>))
              => result = ClosedFile

\* C14: on every way out of the with statement (the body ends, the body
\* raises, __enter__ raises after the file was opened) the handle the
\* container opened has been released: no state after the with statement
\* holds an open handle.
\* (Does not hold: when a read in __enter__ raises, __exit__ is not called
\* and nothing else closes self.file.)
C14_HandleReleased ==
    with_stmt \in {"normal", "raised", "enter_failed"} => file # "open"

\* What does hold: once the body was entered, both ways out of it close
\* the handle.
C14_BodyReleases ==
    with_stmt \in {"normal", "raised"} => file = "closed"

\* C15: a file whose binary header gives a non-positive sample count or
\* sample interval is never opened: the with body is not entered on it, and
\* divide_by_depth and divide_by_grid never run with a cached
\* sample_interval <= 0.
\* (Does not hold: __enter__ caches the two fields as read, without a test.)
C15_OpenValidates ==
    /\ (with_stmt = "body" /\ file_traces >= 1)
         => (bin_Samples > 0 /\ bin_Interval > 0)
    /\ (call.op \in {"divide_by_depth", "divide_by_grid"}
          /\ _sample_interval # None /\ file_traces >= 1)
         => _sample_interval > 0

\* C16: get_data_statistics() without data on an open loader computes over
\* all traces when total_traces <= 1000, and over the traces 0, s, 2s, ...
\* below total_traces, s = total_traces div 1000, when total_traces > 1000;
\* and the sample it computes over then has 1000 traces.
\* (Does not hold: the stride sample has ceil(total_traces / s) traces, which
\* is 1000 only when total_traces is a multiple of 1000.)
C16_StatisticsSample ==
    (call.op = "get_data_statistics" /\ file = "open")
      => /\ result.status = "ok"
         /\ IF file_traces <= MaxSampleTraces
              THEN result.value.shape = <<file_traces, bin_Samples>>
              ELSE result.value.shape = <<MaxSampleTraces, bin_Samples>>

\* What does hold: the matrix the statistics are computed over has the rows
\* of all traces up to the threshold and of the traces 0, s, 2s, ... above
\* it, and the minimum and the maximum are those of its first and last row.
C16_StrideSample ==
    (call.op = "get_data_statistics" /\ file = "open")
      => LET s == IF file_traces <= MaxSampleTraces
                    THEN 1 ELSE file_traces \div MaxSampleTraces
             used == {t \in 0..(file_traces - 1) : t % s = 0}
             n == Cardinality(used)
             data == StatisticsData
         IN  /\ data.status = "ok"
             /\ data.value.shape = <<n, bin_Samples>>
             /\ Len(data.value.data) = n
             /\ \A k \in 1..n : data.value.data[k] = TraceData((k - 1) * s)
             /\ result.status = "ok"
             /\ result.value.shape = <<n, bin_Samples>>
             /\ result.value.min = SampleValue(0, 0)
             /\ result.value.max = SampleValue((n - 1) * s, bin_Samples - 1)

\* C17: on the file of 50 traces, 250 samples and a 2.0 ms interval the grid
\* of (100, 500.0 ms) is the one descriptor with chunk_number 0, trace_range
\* (0, 50), sample_range (0, 250) and time_range_ms (0.0, 500.0); and for
\* every file of total > 0 traces and samples > 0 samples, a grid of
\* n >= total and floor(ms / sample_interval) >= samples is the single
\* chunk covering the whole file.  divide_segy_file returns the grid of
\* divide_by_grid.
C17_SingleChunk ==
    (call.op = "divide_segy_file" /\ file_traces > 0 /\ bin_Samples > 0
       /\ bin_Interval > 0)
      => LET n == call.args[1]
             ms == call.args[2]
         IN  /\ (n >= file_traces /\ ms \div bin_Interval >= bin_Samples)
                  => /\ result.status = "ok"
                     /\ Len(result.value) = 1
                     /\ result.value[1].chunk_number = 0
                     /\ result.value[1].trace_range = <<0, file_traces>>
                     /\ result.value[1].sample_range = <<0, bin_Samples>>
             /\ (file_traces = 50 /\ bin_Samples = 250 /\ bin_Interval = 2000
                   /\ n = 100 /\ ms = 500000)
                  => result = Ok(<<[chunk_id      |-> <<0, 0>>,
                                    chunk_number  |-> 0,
                                    trace_range   |-> <<0, 50>>,
                                    sample_range  |-> <<0, 250>>,
                                    time_range_ms |-> <<0, 500000>>,
                                    num_traces    |-> 50,
                                    num_samples   |-> 250]>>)

\* The example call has been made on the example file and returned a grid.
C17_Witness ==
    /\ call = [op |-> "divide_segy_file", args |-> <<100, 500000>>]
    /\ file_traces = 50 /\ bin_Samples = 250 /\ bin_Interval = 2000
    /\ result.status = "ok"
    /\ Len(result.value) = 1

\* C18: every descriptor of a grid has time_range_ms = (sample_start *
\* sample_interval, sample_end * sample_interval), num_traces = trace_end -
\* trace_start and num_samples = sample_end - sample_start; and within one
\* trace chunk the time range of a depth chunk starts where the time range
\* of the depth chunk before it ends.
C18_DescriptorFields ==
    (call.op = "divide_by_grid" /\ result.status = "ok")
      => LET G == result.value
         IN  /\ \A k \in 1..Len(G) :
                  /\ G[k].time_range_ms
                       = <<G[k].sample_range[1] * _sample_interval,
                           G[k].sample_range[2] * _sample_interval>>
                  /\ G[k].num_traces = G[k].trace_range[2] - G[k].trace_range[1]
                  /\ G[k].num_samples
                       = G[k].sample_range[2] - G[k].sample_range[1]
             /\ \A k \in 1..(Len(G) - 1) :
                  G[k + 1].chunk_id[1] = G[k].chunk_id[1]
                    => G[k + 1].time_range_ms[1] = G[k].time_range_ms[2]

\* A grid with two depth chunks in one trace chunk, on an interval of 2 ms.
C18_Witness ==
    /\ call.op = "divide_by_grid"
    /\ result.status = "ok"
    /\ _sample_interval = 2000
    /\ Len(result.value) >= 2
    /\ result.value[2].chunk_id = <<0, 1>>
    /\ result.value[2].time_range_ms[1] > 0

\* C19: a divide_by_grid call with the arguments of the call whose grid the
\* caller kept returns that same grid again, whatever was called in
\* between; and after save_all_chunks has saved the grid, every descriptor
\* has its artifact under the name made of its chunk_number as four
\* zero-padded digits, holding its rectangle, and the names of distinct
\* descriptors differ, also when the grid is saved again.
C19_Reproducible ==
    /\ (call.op = "divide_by_grid" /\ chunks # NoChunks
          /\ call.args = chunks.args)
         => result = Ok(chunks.grid)
    /\ (call.op = "save_all_chunks" /\ result.status = "ok")
         => LET G == chunks.grid
            IN  /\ Cardinality(output_dir) = Len(G)
                /\ \A k \in 1..Len(G) :
                     \E a \in output_dir :
                       /\ a.name.prefix = "chunk"
                       /\ a.name.suffix = ".npy"
                       /\ Len(a.name.number) = 4
                       /\ a.name.number[1] * 1000 + a.name.number[2] * 100
                            + a.name.number[3] * 10 + a.name.number[4]
                            = G[k].chunk_number
                       /\ a.metadata.chunk_number = G[k].chunk_number
                       /\ a.metadata.chunk_id = G[k].chunk_id
                       /\ a.metadata.trace_range = G[k].trace_range
                       /\ a.metadata.sample_range = G[k].sample_range
                       /\ a.metadata.time_range_ms = G[k].time_range_ms
                       /\ a.metadata.shape = <<G[k].num_traces, G[k].num_samples>>
                /\ \A a \in output_dir, b \in output_dir :
                     a.name = b.name => a = b

\* A grid of at least four chunks in two trace chunks was kept and saved,
\* and divide_by_grid has been called again with the same arguments.
C19_Witness ==
    /\ call.op = "divide_by_grid"
    /\ chunks # NoChunks
    /\ call.args = chunks.args
    /\ file = "open"
    /\ Len(chunks.grid) >= 4
    /\ chunks.grid[Len(chunks.grid)].chunk_id[1] >= 1
    /\ Cardinality(output_dir) = Len(chunks.grid)

\* The operations that read samples.
ReadOps == {"load_trace", "load_traces", "load_depth_slice", "extract_chunk"}

\* The value a read returned is the value of its arguments on the container
\* as it is now.
C20_ReadValue ==
    file = "open"
      => /\ call.op = "load_trace" => result = load_trace(call.args[1])
         /\ call.op = "load_traces"
              => result = load_traces(call.args[1], call.args[2])
         /\ call.op = "load_depth_slice"
              => result = load_depth_slice(call.args[1], call.args[2],
                                           call.args[3], call.args[4])
         /\ call.op = "extract_chunk"
              => result = extract_chunk(call.args[1], call.args[2])

\* A step in which a read is called.
C20_ReadStep == call = NoCall /\ call'.op \in ReadOps

CeilDiv(a, b) == (a + b - 1) \div b

\* The sum of num_traces * num_samples over the descriptors from k on.
RECURSIVE CellCount(_, _)
CellCount(G, k) ==
    IF k > Len(G)
      THEN 0
      ELSE G[k].num_traces * G[k].num_samples + CellCount(G, k + 1)

\* C22: the descriptors divide_by_grid(n, ms) returns tile the trace x sample
\* matrix: there are ceil(total_traces / n) * ceil(samples_per_trace /
\* samples_per_chunk) of them, every cell of the matrix lies in the
\* rectangle of exactly one, and their num_traces * num_samples add up to
\* total_traces * samples_per_trace.
C22_GridTiles ==
    (call.op = "divide_by_grid" /\ result.status = "ok")
      => LET G == result.value
             n == call.args[1]
             q == call.args[2] \div _sample_interval
             spc == IF q = 0 THEN 1 ELSE q
         IN  /\ Len(G) = CeilDiv(file_traces, n) * CeilDiv(bin_Samples, spc)
             /\ \A t \in 0..(file_traces - 1), c \in 0..(bin_Samples - 1) :
                  Cardinality({k \in 1..Len(G) :
                                 /\ t \in Cells(G[k].trace_range)
                                 /\ c \in Cells(G[k].sample_range)}) = 1
             /\ CellCount(G, 1) = file_traces * bin_Samples

\* A grid of two by two chunks whose last chunk is cut in both directions.
C22_Witness ==
    /\ call.op = "divide_by_grid"
    /\ result.status = "ok"
    /\ Len(result.value) = 4
    /\ result.value[1].num_traces = 2
    /\ result.value[1].num_samples = 2
    /\ result.value[4].num_traces = 1
    /\ result.value[4].num_samples = 1

\* C23: every descriptor divide_by_grid returns is a non-empty rectangle
\* within the file, so on the open divider extract_chunk returns the
\* rectangle of every descriptor of the grid, and save_all_chunks, given the
\* grid, ends without an error having stored the matrix of every
\* descriptor.
C23_DescriptorsExtract ==
    /\ (call.op = "divide_by_grid" /\ result.status = "ok")
         => \A k \in 1..Len(result.value) :
              LET tr == result.value[k].trace_range
                  sr == result.value[k].sample_range
              IN  /\ InBounds(tr, sr)
                  /\ file = "open"
                       => /\ extract_chunk(tr, sr).status = "ok"
                          /\ IsRectangle(extract_chunk(tr, sr).value,
                                         tr[1], tr[2], sr[1], sr[2])
    /\ (call.op = "save_all_chunks" /\ file = "open")
         => /\ result.status = "ok"
            /\ \A k \in 1..Len(chunks.grid) :
                 LET tr == chunks.grid[k].trace_range
                     sr == chunks.grid[k].sample_range
                 IN  \E a \in output_dir :
                       /\ a.metadata.chunk_number = chunks.grid[k].chunk_number
                       /\ IsRectangle([shape |-> a.metadata.shape,
                                       data |-> a.data],
                                      tr[1], tr[2], sr[1], sr[2])

\* A grid of at least four chunks has been saved on the open divider.
C23_Witness ==
    /\ call.op = "save_all_chunks"
    /\ file = "open"
    /\ result.status = "ok"
    /\ Len(chunks.grid) >= 4
    /\ Cardinality(output_dir) >= 4

\* The matrix a divider open on the same file returns for the rectangle of a
\* load_depth_slice call (start_sample, end_sample, start_trace, end_trace).
C24_Extracted ==
    extract_chunk(<<call.args[3], OrDefault(call.args[4], file_traces)>>,
                  <<call.args[1], OrDefault(call.args[2], bin_Samples)>>)

\* C24: on the same open file extract_chunk((ts, te), (ss, se)) of the
\* divider and load_depth_slice(ss, se, ts, te) of the loader return
\* matrices of the same shape and elements for every rectangle within the
\* file, and reject the same rectangles outside it.
\* (Does not hold: extract_chunk checks no bound, so it returns a matrix for
\* rectangles that load_depth_slice rejects.)
C24_PathsAgree ==
    (call.op = "load_depth_slice" /\ file = "open" /\ file_traces >= 1)
      => /\ (result.status = "ok") <=> (C24_Extracted.status = "ok")
         /\ result.status = "ok" => result.value = C24_Extracted.value

\* What does hold: on the rectangles within the file the two paths return
\* the same matrix, and whatever load_depth_slice returns, extract_chunk
\* returns too.
C24_InBoundsAgree ==
    (call.op = "load_depth_slice" /\ file = "open")
      => /\ InBounds(<<call.args[3], OrDefault(call.args[4], file_traces)>>,
                     <<call.args[1], OrDefault(call.args[2], bin_Samples)>>)
              => (result.status = "ok" /\ result = C24_Extracted)
         /\ result.status = "ok" => result = C24_Extracted
====
